---- MODULE Spec2Model ----
(***************************************************************************)
(* Model of src/pdf_extractor.py: ANSIStandardsExtractor.                  *)
(*                                                                         *)
(* Strings are sequences of one-character strings, so that split, strip,   *)
(* startswith, "in" and re.match are computed as Python computes them.     *)
(* Lists are sequences; Python's 0-based indices are kept in the variables *)
(* that hold them (start, final_action_indices) and shifted by one where a *)
(* sequence is indexed.                                                    *)
(***************************************************************************)
EXTENDS Integers, Sequences, FiniteSets, TLC

(***************************************************************************)
(* Bounds of the model.                                                    *)
(***************************************************************************)
\* most pages in a document
MaxPages == 2
\* most kept lines in a document, all pages together
MaxLines == 4

(***************************************************************************)
(* Python string and list operations used by the extractor.                *)
(***************************************************************************)
\* s[a:b] of Python for 0 <= a, 0 <= b (positions clipped to the length)
Slice(s, a, b) ==
    LET hi == IF b < Len(s) THEN b ELSE Len(s)
    IN  IF a >= hi THEN << >> ELSE SubSeq(s, a + 1, hi)

\* s[a:-n] of Python for a >= 0, n > 0
SliceFromDropLast(s, a, n) ==
    IF Len(s) - n <= a THEN << >> ELSE SubSeq(s, a + 1, Len(s) - n)

\* s.find(sub) + 1 : position of the first occurrence, 0 when there is none
Find(s, sub) ==
    LET ps == { p \in 1..(Len(s) - Len(sub) + 1) :
                    SubSeq(s, p, p + Len(sub) - 1) = sub }
    IN  IF ps = {} THEN 0 ELSE CHOOSE p \in ps : \A q \in ps : p <= q

\* sub in s
Contains(s, sub) == Find(s, sub) # 0

\* s.startswith(p)
StartsWith(s, p) == Len(s) >= Len(p) /\ SubSeq(s, 1, Len(p)) = p

\* s.split(sep), sep not empty
RECURSIVE Split(_, _)
Split(s, sep) ==
    LET p == Find(s, sep)
    IN  IF p = 0
        THEN << s >>
        ELSE << SubSeq(s, 1, p - 1) >>
                 \o Split(SubSeq(s, p + Len(sep), Len(s)), sep)

\* sep.join(parts)
RECURSIVE Join(_, _)
Join(parts, sep) ==
    IF parts = << >> THEN << >>
    ELSE IF Len(parts) = 1 THEN parts[1]
    ELSE parts[1] \o sep \o Join(Tail(parts), sep)

IsSpace(c) == c \in {" ", "\n", "\t"}

\* s.lstrip(' ') and s.lstrip()
RECURSIVE LStrip(_)
LStrip(s) ==
    IF s # << >> /\ IsSpace(s[1]) THEN LStrip(Tail(s)) ELSE s

RECURSIVE RStrip(_)
RStrip(s) ==
    IF s # << >> /\ IsSpace(s[Len(s)])
    THEN RStrip(SubSeq(s, 1, Len(s) - 1)) ELSE s

\* s.strip()
Strip(s) == RStrip(LStrip(s))

\* s.split() : the runs of non-whitespace characters
RECURSIVE SplitWs(_)
SplitWs(s) ==
    LET t  == LStrip(s)
        sp == { p \in 1..Len(t) : IsSpace(t[p]) }
        e  == IF sp = {} THEN Len(t) + 1
              ELSE CHOOSE p \in sp : \A q \in sp : p <= q
    IN  IF t = << >> THEN << >>
        ELSE << SubSeq(t, 1, e - 1) >> \o SplitWs(SubSeq(t, e, Len(t)))

\* re.match(r"\S+ \(", line) : \S+ cannot cross a space, so the match is
\* one or more non-whitespace characters, then ' ' and '('
ReMatchPattern(line) ==
    \E p \in 2..(Len(line) - 1) :
        /\ \A q \in 1..(p - 1) : ~IsSpace(line[q])
        /\ line[p] = " "
        /\ line[p + 1] = "("

(***************************************************************************)
(* Literals of the source.                                                 *)
(***************************************************************************)
FinalActionDate ==
    << "F","i","n","a","l"," ","A","c","t","i","o","n"," ","D","a","t","e" >>
FinalActionDateColon == FinalActionDate \o << ":", " " >>
WebTag == << "w", ":", " " >>
Pipe == << "|" >>
Comma == << "," >>
Newline == << "\n" >>
ANSI == << "A","N","S","I" >>
INCITS == << "I","N","C","I","T","S" >>
Boilerplate ==
    << "T","h","e"," ","d","a","t","a"," ","i","n"," ","t","h","i","s"," ",
       "d","o","c","u","m","e","n","t"," ","i","s"," ",
       "r","e","p","o","r","t","e","d" >>
Nil == << "N", "i", "l" >>
American == << "A","m","e","r","i","c","a","n" >>
\* page_text.split('\n')[11:-2] on the first page, [:-2] on the others
HeaderSkip == 11
FooterSkip == 2
\* [:-106] on a legal name taken from a boilerplate line
TruncLen == 106

(***************************************************************************)
(* Input documents.  A line of a page is one of Catalogue; a page's text   *)
(* is its kept lines between the dropped header and footer lines, joined   *)
(* by newlines, as PyPDF2's extract_text returns it.                       *)
(***************************************************************************)
\* a name line that is also a website line and a document line
LineNWD == ANSI \o << " ", "(", "|" >> \o WebTag \o << "s", ",", "t" >>
\* a document line with no name and no website
LineD == INCITS \o << ",", "u" >>
\* a marker line with one date
LineM1 == FinalActionDateColon \o << "1" >>
\* a marker line with two pipe-fields that hold a date
LineMM == FinalActionDateColon \o << "1" >> \o Pipe
              \o FinalActionDateColon \o << "2" >>
\* a marker line without ": "
LineMB == FinalActionDate

Catalogue == << LineNWD, LineD, LineM1, LineMM, LineMB >>

\* the lines the extractor drops are marker lines, so that keeping one of
\* them would show as a segment
Filler == LineMB

\* the text of page number i (from 0) whose kept lines are kept
PageText(i, kept) ==
    Join((IF i = 0 THEN [j \in 1..HeaderSkip |-> Filler] ELSE << >>)
             \o kept \o [j \in 1..FooterSkip |-> Filler],
         Newline)

RECURSIVE SumTo(_, _)
SumTo(sizes, j) == IF j = 0 THEN 0 ELSE sizes[j] + SumTo(sizes, j - 1)

\* the document whose pages have sizes[j] kept lines each, the kept lines
\* of all pages being the lines numbered flat of the catalogue
TextOf(flat, sizes) ==
    [j \in 1..Len(sizes) |->
        PageText(j - 1,
                 [m \in 1..sizes[j] |-> Catalogue[flat[SumTo(sizes, j - 1) + m]]])]

(***************************************************************************)
(* The steps of parse_text_data on values.                                 *)
(***************************************************************************)
\* the lines of page i that are kept
KeptLines(i, page_text) ==
    IF i = 0
    THEN SliceFromDropLast(Split(page_text, Newline), HeaderSkip, FooterSkip)
    ELSE SliceFromDropLast(Split(page_text, Newline), 0, FooterSkip)

\* a slip of the test: the page is tested, not the lines with 'w: '
HasWebsiteLineAnyLine(page) == page # << >>

\* web_test is not empty
HasWebsiteLine(page) == \E j \in 1..Len(page) : Contains(page[j], WebTag)

\* the indices, from 0 and ascending, of the lines with the marker
RECURSIVE FinalActionIndices(_, _)
FinalActionIndices(page, idx) ==
    IF idx >= Len(page) THEN << >>
    ELSE (IF Contains(page[idx + 1], FinalActionDate) THEN << idx >> ELSE << >>)
             \o FinalActionIndices(page, idx + 1)

\* a slip of the slice: page[start+1:idx], the marker line left out
SubListDropMarker(page, start, idx) == Slice(page, start + 1, idx)

\* page[start+1:idx+1]
SubList(page, start, idx) == Slice(page, start + 1, idx + 1)

\* a slip of the loop: a field with the marker but without ": " is passed
\* over and nothing is appended for it
RECURSIVE DateLoopSkip(_, _)
DateLoopSkip(val, dates) ==
    IF val = << >> THEN [out |-> dates, err |-> "none"]
    ELSE IF Contains(val[1], FinalActionDateColon)
    THEN DateLoopSkip(Tail(val),
             Append(dates, Strip(Split(val[1], FinalActionDateColon)[2])))
    ELSE DateLoopSkip(Tail(val), dates)

\* the loop over the pipe-fields of the marker line: every field with the
\* marker appends what follows "Final Action Date: ", or raises IndexError
\* when the field has no ": " after the marker, the dates of the fields
\* before it staying appended
RECURSIVE DateLoop(_, _)
DateLoop(val, dates) ==
    IF val = << >> THEN [out |-> dates, err |-> "none"]
    ELSE IF Contains(val[1], FinalActionDate)
    THEN LET parts == Split(val[1], FinalActionDateColon)
         IN  IF Len(parts) < 2
             THEN [out |-> dates, err |-> "IndexError"]
             ELSE DateLoop(Tail(val), Append(dates, Strip(parts[2])))
    ELSE DateLoop(Tail(val), dates)

PublishingDates(sub_list, dates) ==
    IF sub_list = << >> THEN [out |-> dates, err |-> "IndexError"]
    ELSE DateLoop(Split(sub_list[Len(sub_list)], Pipe), dates)

\* line.split()[0]
OperatingNameOf(line) == SplitWs(line)[1]

\* ', '.join(line.split()[1:]), cut by 106 characters on a boilerplate line
LegalNameOf(line) ==
    LET joined == Join(Tail(SplitWs(line)), << ",", " " >>)
    IN  IF Contains(line, Boilerplate)
        THEN SliceFromDropLast(joined, 0, TruncLen)
        ELSE joined

\* _extract_names: the operating and legal names after the segment
RECURSIVE ExtractNames(_, _)
ExtractNames(sub_list, names) ==
    IF sub_list = << >> THEN names
    ELSE IF ReMatchPattern(sub_list[1])
    THEN ExtractNames(Tail(sub_list),
             [op    |-> Append(names.op, OperatingNameOf(sub_list[1])),
              legal |-> Append(names.legal, LegalNameOf(sub_list[1]))])
    ELSE ExtractNames(Tail(sub_list), names)

\* _extract_website: line.split('|')[1].split('w: ')[1].strip() of every
\* line with 'w: '; either index raises IndexError
RECURSIVE ExtractWebsite(_, _)
ExtractWebsite(sub_list, sites) ==
    IF sub_list = << >> THEN [out |-> sites, err |-> "none"]
    ELSE IF Contains(sub_list[1], WebTag)
    THEN LET fields == Split(sub_list[1], Pipe)
         IN  IF Len(fields) < 2 \/ Len(Split(fields[2], WebTag)) < 2
             THEN [out |-> sites, err |-> "IndexError"]
             ELSE ExtractWebsite(Tail(sub_list),
                      Append(sites, Strip(Split(fields[2], WebTag)[2])))
    ELSE ExtractWebsite(Tail(sub_list), sites)

IsDocumentLine(line) ==
    (StartsWith(line, ANSI) \/ StartsWith(line, INCITS)) /\ Contains(line, Comma)

\* a slip of the search: index starts at 0 and is used when no line matches
DocIndexDefaultZero(sub_list) ==
    LET ds == { j \in 1..Len(sub_list) : IsDocumentLine(sub_list[j]) }
    IN  IF ds = {} THEN 0
        ELSE (CHOOSE j \in ds : \A q \in ds : j <= q) - 1

\* index of _extract_document_info, from 0; -1 when the loop assigns none
\* and the local variable stays unbound
DocIndex(sub_list) ==
    LET ds == { j \in 1..Len(sub_list) : IsDocumentLine(sub_list[j]) }
    IN  IF ds = {} THEN -1
        ELSE (CHOOSE j \in ds : \A q \in ds : j <= q) - 1

\* ' '.join(sub_list[index:-1])
DocText(sub_list, index) ==
    Join(SliceFromDropLast(sub_list, index, 1), << " " >>)

\* .split(',')[0]
DocumentNameOf(sub_list, index) == Split(DocText(sub_list, index), Comma)[1]

RECURSIVE LStripSpaces(_)
LStripSpaces(s) ==
    IF s # << >> /\ s[1] = " " THEN LStripSpaces(Tail(s)) ELSE s

\* ' '.join(... .split(',')[1:]).lstrip(' ')
StandardTitleOf(sub_list, index) ==
    LStripSpaces(Join(Tail(Split(DocText(sub_list, index), Comma)), << " " >>))

\* df['Legal Name'].str.replace('[()]', '', regex=True)
StripParens(s) == SelectSeq(s, LAMBDA c : c \notin { "(", ")" })

\* pd.DataFrame(data) accepts columns of one length only
SameLength(a, b, c, d, e, f) ==
    /\ Len(a) = Len(b) /\ Len(b) = Len(c) /\ Len(c) = Len(d)
    /\ Len(d) = Len(e) /\ Len(e) = Len(f)

(***************************************************************************)
(* State of one run of process().                                          *)
(***************************************************************************)
VARIABLES
    pc,                    \* the step process() is at
    err,                   \* the exception that ended the run, or "none"
    text,                  \* the page texts extract_pdf_text returned
    i,                     \* index, from 0, of the page being parsed
    page,                  \* the kept lines of that page
    final_action_indices,  \* the marker indices of that page
    k,                     \* number of marker indices the loop has taken
    start,                 \* index of the previous marker line, or -1
    sub_list,              \* the segment being processed
    operating_name, legal_name, website,
    document_name, standard_title, publishing_date,
    df,                    \* the table of create_dataframe
    excel                  \* the spreadsheet file of save_to_excel

lists == << operating_name, legal_name, website,
            document_name, standard_title, publishing_date >>
loop == << i, page, final_action_indices, k, start, sub_list >>
vars == << pc, err, text, loop, lists, df, excel >>

\* __init__ : empty accumulators, nothing extracted or written yet
Init ==
    /\ pc = "extract"
    /\ err = "none"
    /\ text = << >>
    /\ i = -1
    /\ page = << >>
    /\ final_action_indices = << >>
    /\ k = 0
    /\ start = -1
    /\ sub_list = << >>
    /\ operating_name = << >>
    /\ legal_name = << >>
    /\ website = << >>
    /\ document_name = << >>
    /\ standard_title = << >>
    /\ publishing_date = << >>
    /\ df = [built |-> FALSE, rows |-> << >>]
    /\ excel = [written |-> FALSE, rows |-> << >>]

\* a slip of process(): the exception is caught and the run goes on to
\* write the spreadsheet
RaiseAndGoOn(e) == pc' = "save" /\ err' = e

\* an exception leaves process(): nothing after the raising statement runs
Raise(e) == pc' = "failed" /\ err' = e

\* extract_pdf_text: the file is missing
ExtractPdfTextNotFound ==
    /\ pc = "extract"
    /\ Raise("FileNotFoundError")
    /\ UNCHANGED << text, loop, lists, df, excel >>

\* extract_pdf_text: opening or reading the file fails otherwise
ExtractPdfTextError ==
    /\ pc = "extract"
    /\ Raise("Exception")
    /\ UNCHANGED << text, loop, lists, df, excel >>

\* extract_pdf_text: the text of every page, in page order
ExtractPdfText ==
    /\ pc = "extract"
    /\ \E p \in 0..MaxPages, n \in 0..MaxLines :
         \E flat \in [1..n -> 1..Len(Catalogue)], sizes \in [1..p -> 0..n] :
            /\ SumTo(sizes, p) = n
            /\ text' = TextOf(flat, sizes)
    /\ pc' = "page"
    /\ UNCHANGED << err, loop, lists, df, excel >>

\* parse_text_data, one turn of the loop over pages up to the loop over
\* the marker indices
BeginPage ==
    /\ pc = "page"
    /\ i + 1 < Len(text)
    /\ i' = i + 1
    /\ page' = KeptLines(i', text[i' + 1])
    /\ website' = IF HasWebsiteLine(page') THEN website ELSE Append(website, Nil)
    /\ final_action_indices' = FinalActionIndices(page', 0)
    /\ start' = -1
    /\ k' = 0
    /\ pc' = "segment"
    /\ UNCHANGED << err, text, sub_list, operating_name, legal_name,
                    document_name, standard_title, publishing_date, df, excel >>

\* the loop over pages ends and parse_text_data returns
EndParse ==
    /\ pc = "page"
    /\ i + 1 >= Len(text)
    /\ pc' = "create"
    /\ UNCHANGED << err, text, loop, lists, df, excel >>

\* the loop over the marker indices takes the next one
NextSegment ==
    /\ pc = "segment"
    /\ k < Len(final_action_indices)
    /\ sub_list' = SubList(page, start, final_action_indices[k + 1])
    /\ start' = final_action_indices[k + 1]
    /\ k' = k + 1
    /\ pc' = "date"
    /\ UNCHANGED << err, text, i, page, final_action_indices, lists, df, excel >>

\* the loop over the marker indices ends
EndPage ==
    /\ pc = "segment"
    /\ k = Len(final_action_indices)
    /\ pc' = "page"
    /\ UNCHANGED << err, text, loop, lists, df, excel >>

\* the publishing date of the segment
ExtractPublishingDate ==
    /\ pc = "date"
    /\ LET r == PublishingDates(sub_list, publishing_date)
       IN  /\ publishing_date' = r.out
           /\ IF r.err = "none"
              THEN pc' = "names" /\ err' = err
              ELSE Raise(r.err)
    /\ UNCHANGED << text, loop, operating_name, legal_name, website,
                    document_name, standard_title, df, excel >>

\* _extract_names
ExtractNamesStep ==
    /\ pc = "names"
    /\ LET r == ExtractNames(sub_list, [op |-> operating_name, legal |-> legal_name])
       IN  operating_name' = r.op /\ legal_name' = r.legal
    /\ pc' = "website"
    /\ UNCHANGED << err, text, loop, website, document_name, standard_title,
                    publishing_date, df, excel >>

\* _extract_website
ExtractWebsiteStep ==
    /\ pc = "website"
    /\ LET r == ExtractWebsite(sub_list, website)
       IN  /\ website' = r.out
           /\ IF r.err = "none"
              THEN pc' = "docinfo" /\ err' = err
              ELSE Raise(r.err)
    /\ UNCHANGED << text, loop, operating_name, legal_name, document_name,
                    standard_title, publishing_date, df, excel >>

\* a slip of the appends: the document name is put first in its list
ExtractDocumentInfoPrepend ==
    /\ pc = "docinfo"
    /\ LET index == DocIndex(sub_list)
       IN  IF index < 0
           THEN /\ Raise("UnboundLocalError")
                /\ UNCHANGED << document_name, standard_title >>
           ELSE /\ document_name' =
                       << DocumentNameOf(sub_list, index) >> \o document_name
                /\ standard_title' =
                       Append(standard_title, StandardTitleOf(sub_list, index))
                /\ pc' = "consistency"
                /\ err' = err
    /\ UNCHANGED << text, loop, operating_name, legal_name, website,
                    publishing_date, df, excel >>

\* _extract_document_info
ExtractDocumentInfo ==
    /\ pc = "docinfo"
    /\ LET index == DocIndex(sub_list)
       IN  IF index < 0
           THEN /\ Raise("UnboundLocalError")
                /\ UNCHANGED << document_name, standard_title >>
           ELSE /\ document_name' =
                       Append(document_name, DocumentNameOf(sub_list, index))
                /\ standard_title' =
                       Append(standard_title, StandardTitleOf(sub_list, index))
                /\ pc' = "consistency"
                /\ err' = err
    /\ UNCHANGED << text, loop, operating_name, legal_name, website,
                    publishing_date, df, excel >>

\* _ensure_data_consistency; [-1] of an empty list raises IndexError, after
\* the names were padded when it is the website list that is empty
EnsureDataConsistency ==
    /\ pc = "consistency"
    /\ LET names_behind == Len(operating_name) < Len(standard_title)
           web_behind   == Len(website) < Len(standard_title)
           names_fail   == names_behind /\ (operating_name = << >> \/ legal_name = << >>)
           web_fail     == ~names_fail /\ web_behind /\ website = << >>
       IN  /\ IF names_behind /\ operating_name # << >>
              THEN operating_name' =
                       Append(operating_name, operating_name[Len(operating_name)])
              ELSE operating_name' = operating_name
           /\ IF names_behind /\ ~names_fail
              THEN legal_name' = Append(legal_name, legal_name[Len(legal_name)])
              ELSE legal_name' = legal_name
           /\ IF web_behind /\ ~names_fail /\ ~web_fail
              THEN website' = Append(website, website[Len(website)])
              ELSE website' = website
           /\ IF names_fail \/ web_fail
              THEN Raise("IndexError")
              ELSE pc' = "segment" /\ err' = err
    /\ UNCHANGED << text, loop, document_name, standard_title,
                    publishing_date, df, excel >>

\* the rows of the table: the columns side by side, the parentheses taken
\* out of the legal name, and the constant column
Rows ==
    [r \in 1..Len(operating_name) |->
        [operating_name  |-> operating_name[r],
         legal_name      |-> StripParens(legal_name[r]),
         website         |-> website[r],
         document_name   |-> document_name[r],
         standard_title  |-> standard_title[r],
         publishing_date |-> publishing_date[r],
         american        |-> American]]

\* create_dataframe
CreateDataframe ==
    /\ pc = "create"
    /\ IF SameLength(operating_name, legal_name, website,
                     document_name, standard_title, publishing_date)
       THEN /\ df' = [built |-> TRUE, rows |-> Rows]
            /\ pc' = "save"
            /\ err' = err
       ELSE /\ Raise("ValueError")
            /\ df' = df
    /\ UNCHANGED << text, loop, lists, excel >>

\* save_to_excel, and process() returns
SaveToExcel ==
    /\ pc = "save"
    /\ excel' = [written |-> TRUE, rows |-> df.rows]
    /\ pc' = "done"
    /\ UNCHANGED << err, text, loop, lists, df >>

Next ==
    \/ ExtractPdfTextNotFound
    \/ ExtractPdfTextError
    \/ ExtractPdfText
    \/ BeginPage
    \/ EndParse
    \/ NextSegment
    \/ EndPage
    \/ ExtractPublishingDate
    \/ ExtractNamesStep
    \/ ExtractWebsiteStep
    \/ ExtractDocumentInfo
    \/ EnsureDataConsistency
    \/ CreateDataframe
    \/ SaveToExcel

Spec == Init /\ [][Next]_vars

(***************************************************************************)
(* What the claims speak of, stated on the input and not on the loop.      *)
(***************************************************************************)
IsMarker(line) == Contains(line, FinalActionDate)

\* positions, from 1, of the marker lines of a page
MarkerPositions(pg) == { j \in 1..Len(pg) : IsMarker(pg[j]) }

\* the n-th marker position of a page
NthMarker(pg, n) ==
    CHOOSE m \in MarkerPositions(pg) :
        Cardinality({ x \in MarkerPositions(pg) : x <= m }) = n

\* the n-th segment of a page: from the line after the marker before it
\* (the first line for n = 1) to its own marker line
NthSegment(pg, n) ==
    SubSeq(pg, IF n = 1 THEN 1 ELSE NthMarker(pg, n - 1) + 1, NthMarker(pg, n))

\* the kept lines of the j-th page, j from 1
KeptOf(j) == KeptLines(j - 1, text[j])

\* marker lines in the kept lines of the first j pages
RECURSIVE MarkersUpTo(_)
MarkersUpTo(j) ==
    IF j = 0 THEN 0
    ELSE Cardinality(MarkerPositions(KeptOf(j))) + MarkersUpTo(j - 1)

\* the segments of the first j pages, in page order then segment order
RECURSIVE SegmentsUpTo(_)
SegmentsUpTo(j) ==
    IF j = 0 THEN << >>
    ELSE SegmentsUpTo(j - 1)
             \o [n \in 1..Cardinality(MarkerPositions(KeptOf(j))) |->
                    NthSegment(KeptOf(j), n)]

\* a segment is being processed, _ensure_data_consistency not yet run
InSegment == pc \in { "date", "names", "website", "docinfo", "consistency" }

\* _ensure_data_consistency has just returned for a segment
AfterConsistency == pc = "segment" /\ k >= 1

\* segments processed so far, all pages together
SegmentsDone == MarkersUpTo(i) + k

Lengths ==
    { Len(operating_name), Len(legal_name), Len(website),
      Len(document_name), Len(standard_title), Len(publishing_date) }

Last(s) == s[Len(s)]

(***************************************************************************)
(* C1: after _ensure_data_consistency returns for a segment, the six       *)
(* accumulators all have the same length, the number of segments processed *)
(* so far.  The code does not keep this: a list that is ahead is never cut *)
(* back.                                                                   *)
(***************************************************************************)
C1_EqualLengths ==
    AfterConsistency => Lengths = { SegmentsDone }

(***************************************************************************)
(* C2: a page with k marker lines in its kept lines forms exactly k        *)
(* segments; the n-th runs from the line after the marker before it (from  *)
(* the first line for n = 1) to its own marker line, which is its only     *)
(* marker line; the lines after the last marker are in no segment.         *)
(***************************************************************************)
C2_Segmentation ==
    /\ (pc = "segment" \/ InSegment \/ (pc = "page" /\ i >= 0)) =>
          /\ Len(final_action_indices) = Cardinality(MarkerPositions(page))
          /\ k <= Len(final_action_indices)
    /\ InSegment =>
          /\ k >= 1
          /\ sub_list = NthSegment(page, k)
          /\ sub_list # << >>
          /\ IsMarker(Last(sub_list))
          /\ \A j \in 1..(Len(sub_list) - 1) : ~IsMarker(sub_list[j])
    /\ (pc = "page" /\ i >= 0) =>
          k = Cardinality(MarkerPositions(page))

\* the second segment of a page is being processed and a kept line follows
\* its marker line
C2_Witness ==
    /\ pc = "date"
    /\ k = 2
    /\ final_action_indices[2] + 1 < Len(page)

C4_RowPerSegment ==
    df.built =>
        LET segs == SegmentsUpTo(Len(text))
        IN  /\ Len(df.rows) = Len(segs)
            /\ Len(segs) = MarkersUpTo(Len(text))
            /\ \A r \in 1..Len(segs) :
                  /\ df.rows[r].document_name =
                         DocumentNameOf(segs[r], DocIndex(segs[r]))
                  /\ df.rows[r].standard_title =
                         StandardTitleOf(segs[r], DocIndex(segs[r]))
                  /\ << df.rows[r].publishing_date >> =
                         PublishingDates(segs[r], << >>).out

\* a table of two rows whose document names differ
C4_Witness ==
    /\ df.built
    /\ Len(df.rows) = 2
    /\ df.rows[1].document_name # df.rows[2].document_name

(***************************************************************************)
(* C5: when every segment of every page has exactly one name line, exactly *)
(* one line with "w: ", which has it in its second pipe-field, a document  *)
(* line, and a marker line with exactly one pipe-field with the marker,    *)
(* which has "Final Action Date: ", the run completes without error and    *)
(* writes a table with one row per marker line, every column filled in     *)
(* every row and "American" in the constant column.  The code fails on     *)
(* such a document when one of its pages has no line with "w: ".           *)
(***************************************************************************)
WellFormedSegment(seg) ==
    /\ Cardinality({ j \in 1..Len(seg) : ReMatchPattern(seg[j]) }) = 1
    /\ Cardinality({ j \in 1..Len(seg) : Contains(seg[j], WebTag) }) = 1
    /\ \A j \in 1..Len(seg) :
          Contains(seg[j], WebTag) =>
              /\ Len(Split(seg[j], Pipe)) >= 2
              /\ Contains(Split(seg[j], Pipe)[2], WebTag)
    /\ \E j \in 1..Len(seg) : IsDocumentLine(seg[j])
    /\ LET fields == Split(Last(seg), Pipe)
       IN  /\ Cardinality({ f \in 1..Len(fields) :
                               Contains(fields[f], FinalActionDate) }) = 1
           /\ \A f \in 1..Len(fields) :
                 Contains(fields[f], FinalActionDate) =>
                     Contains(fields[f], FinalActionDateColon)

WellFormedText ==
    \A r \in 1..Len(SegmentsUpTo(Len(text))) :
        WellFormedSegment(SegmentsUpTo(Len(text))[r])

\* extract_pdf_text has returned the page texts
TextExtracted ==
    pc # "extract" /\ err \notin { "FileNotFoundError", "Exception" }

TableAsClaimed ==
    /\ excel.written
    /\ Len(excel.rows) = MarkersUpTo(Len(text))
    /\ \A r \in 1..Len(excel.rows) : excel.rows[r].american = American

C5_Original ==
    (TextExtracted /\ WellFormedText) =>
        /\ pc # "failed"
        /\ pc = "done" => TableAsClaimed

\* the same documents with a line with "w: " among the kept lines of every
\* page: on these the run does complete as claimed
C5_WithWebsiteOnEveryPage ==
    (/\ TextExtracted
     /\ WellFormedText
     /\ \A j \in 1..Len(text) :
           \E m \in 1..Len(KeptOf(j)) : Contains(KeptOf(j)[m], WebTag)) =>
        /\ pc # "failed"
        /\ pc = "done" => TableAsClaimed

(***************************************************************************)
(* C6: the spreadsheet is written only after extraction, the parsing of    *)
(* every page and segment and the table construction have completed with   *)
(* no error, and it holds the whole table; a run that raised wrote nothing.*)
(***************************************************************************)
C6_AllOrNothing ==
    /\ excel.written =>
          /\ pc = "done"
          /\ err = "none"
          /\ df.built
          /\ excel.rows = df.rows
          /\ Len(excel.rows) = MarkersUpTo(Len(text))
    /\ df.built =>
          /\ i + 1 = Len(text)
          /\ i >= 0 => k = Len(final_action_indices)
          /\ Lengths = { Len(df.rows) }
    /\ pc = "failed" <=> err # "none"
    /\ pc = "failed" => ~excel.written

\* every page was parsed, the columns were of unequal length at the table
\* construction, and no file is written
C6_Witness ==
    /\ pc = "failed"
    /\ err = "ValueError"
    /\ standard_title # << >>
    /\ ~excel.written

(***************************************************************************)
(* C7: when _extract_document_info runs on a segment with no line that     *)
(* starts with ANSI or INCITS and has a comma, it raises, whatever the     *)
(* segments before it held; nothing is appended to document_name or        *)
(* standard_title, and no step of the run follows the failure.             *)
(***************************************************************************)
C7_MissingDocumentLine ==
    [][ /\ pc # "failed"
        /\ (pc = "docinfo"
              /\ \A j \in 1..Len(sub_list) : ~IsDocumentLine(sub_list[j])) =>
              /\ pc' = "failed"
              /\ err' = "UnboundLocalError"
              /\ UNCHANGED << document_name, standard_title >> ]_vars

\* the run failed on a segment with no document line, after a segment that
\* had one and before a marker line of the page that is never reached
C7_Witness ==
    /\ pc = "failed"
    /\ err = "UnboundLocalError"
    /\ standard_title # << >>
    /\ k < Len(final_action_indices)

(***************************************************************************)
(* C8: for every segment, the first of the run included, in which no name  *)
(* line (no website line) was found, _ensure_data_consistency appends a    *)
(* copy of the last operating and legal name (of the last website), the    *)
(* counts are then not behind the standard_title count, it never fails and *)
(* appends at most one entry per list.  The code raises IndexError when    *)
(* the list to copy from is empty.                                         *)
(***************************************************************************)
C8_Original ==
    [][ pc = "consistency" =>
            /\ pc' = "segment"
            /\ (\A j \in 1..Len(sub_list) : ~ReMatchPattern(sub_list[j])) =>
                  /\ operating_name # << >>
                  /\ operating_name' = Append(operating_name, Last(operating_name))
                  /\ legal_name # << >>
                  /\ legal_name' = Append(legal_name, Last(legal_name))
            /\ (\A j \in 1..Len(sub_list) : ~Contains(sub_list[j], WebTag)) =>
                  /\ website # << >>
                  /\ website' = Append(website, Last(website))
            /\ Len(operating_name') >= Len(standard_title')
            /\ Len(website') >= Len(standard_title')
            /\ Len(operating_name') <= Len(operating_name) + 1
            /\ Len(legal_name') <= Len(legal_name) + 1
            /\ Len(website') <= Len(website) + 1 ]_vars

(***************************************************************************)
(* C9: while a segment is processed and _ensure_data_consistency has not   *)
(* run, the lengths of any two of the six accumulators differ by at most   *)
(* one.  The code lets them differ by more.                                *)
(***************************************************************************)
C9_Original ==
    InSegment => \A a, b \in Lengths : a - b <= 1

(***************************************************************************)
(* C10: the publishing date step never passes over a segment: it appends   *)
(* at least one entry to publishing_date or raises IndexError, which it    *)
(* does when a pipe-field of the marker line has the marker without ": ";  *)
(* so after every segment processed to completion publishing_date is at    *)
(* least as long as standard_title.                                        *)
(***************************************************************************)
C10_DateNeverSkipped ==
    /\ [][ pc = "date" =>
              \/ /\ pc' = "names"
                 /\ Len(publishing_date') > Len(publishing_date)
              \/ /\ pc' = "failed"
                 /\ err' = "IndexError"
                 /\ \E f \in 1..Len(Split(Last(sub_list), Pipe)) :
                       /\ Contains(Split(Last(sub_list), Pipe)[f], FinalActionDate)
                       /\ ~Contains(Split(Last(sub_list), Pipe)[f],
                                    FinalActionDateColon) ]_vars
    /\ [](pc \in { "segment", "page", "create", "save", "done" } =>
              Len(publishing_date) >= Len(standard_title))

\* two segments were processed to completion and each gave one date
C10_Witness ==
    /\ AfterConsistency
    /\ k = 2
    /\ Len(standard_title) = 2
    /\ Len(publishing_date) = 2

====
